---------------------------- MODULE Spec2Model ----------------------------
(***************************************************************************)
(* Model of the E-Library college portal (src/data.js): the in-memory user *)
(* collection, the per-browser session identity, the role guard and the    *)
(* route handlers.                                                         *)
(*                                                                         *)
(* Strings that pass through trim()/xss() are modelled as sequences of     *)
(* tokens: " " is a whitespace character, "<" and ">" are the markup       *)
(* characters, every other token is a run of ordinary characters.  The     *)
(* empty sequence is the empty string; a body field that is absent         *)
(* (undefined) is falsy exactly like the empty string in every test the    *)
(* handlers make, so it is drawn as the empty sequence too.                *)
(***************************************************************************)
EXTENDS Integers, Sequences, FiniteSets, TLC

\* users, libraryData: the two exported collections
\* session[s]: the index in users of req.session.user of session s, 0 when none
\* attachedBy[s]: which handler attached that identity ("none", "login", "signup")
\* last: the response of the handler that has just run
\* inflight: the POST /signup requests accepted for concurrent handling
VARIABLES users, libraryData, session, attachedBy, last, inflight

vars == <<users, libraryData, session, attachedBy, last, inflight>>

(***************************************************************************)
(* Bounds of the model.                                                    *)
(***************************************************************************)
NumSessions == 2       \* browser sessions
MaxInFlight == 2       \* POST /signup requests accepted concurrently

Sessions == 1..NumSessions

(***************************************************************************)
(* Strings.                                                                *)
(***************************************************************************)
S(t) == <<t>>

Undefined == "undefined"
NoSemester == 0                         \* semester of a non-student: undefined
PlaceholderPic == "/assets/profile-placeholder.png"

IsSpace(t) == t = " "

RECURSIVE TrimStart(_)
TrimStart(str) ==
  IF str # <<>> /\ IsSpace(Head(str)) THEN TrimStart(Tail(str)) ELSE str

RECURSIVE TrimEnd(_)
TrimEnd(str) ==
  IF str # <<>> /\ IsSpace(str[Len(str)])
  THEN TrimEnd(SubSeq(str, 1, Len(str) - 1))
  ELSE str

\* String.prototype.trim
Trim(str) == TrimEnd(TrimStart(str))

\* xss(): markup characters outside the whitelist are escaped to entities
EscapeHtml(t) == IF t = "<" THEN "&lt;" ELSE IF t = ">" THEN "&gt;" ELSE t

Xss(str) == [i \in 1..Len(str) |-> EscapeHtml(str[i])]

\* x ? xss(x.trim()) : ''
Sanitize(raw) == IF raw # <<>> THEN Xss(Trim(raw)) ELSE <<>>

\* role ? xss(role.trim()) : 'student'
SanitizeRole(raw) == IF raw # <<>> THEN Xss(Trim(raw)) ELSE S("student")

(***************************************************************************)
(* The seed fixtures.                                                      *)
(***************************************************************************)
JohnDoe ==
  [ roll |-> S("22111234"), password |-> S("pass123"), name |-> S("John Doe"),
    role |-> S("student"), universityRoll |-> S("12345623145"),
    semester |-> 6, college |-> "ABC College", profilePic |-> PlaceholderPic,
    performance |-> << [sem |-> 1, gpa10 |-> 72], [sem |-> 2, gpa10 |-> 75],
                       [sem |-> 3, gpa10 |-> 78], [sem |-> 4, gpa10 |-> 80],
                       [sem |-> 5, gpa10 |-> 82], [sem |-> 6, gpa10 |-> 85] >>,
    reportCards |-> << "/assets/marksheets/sem1.pdf" >>,
    classAssigned |-> Undefined ]

\* a record without the student fields and without classAssigned
Minimal(roll, password, name, role) ==
  [ roll |-> roll, password |-> password, name |-> name, role |-> role,
    universityRoll |-> S(Undefined), semester |-> NoSemester,
    college |-> Undefined, profilePic |-> PlaceholderPic,
    performance |-> Undefined, reportCards |-> Undefined,
    classAssigned |-> Undefined ]

SeedUsers ==
  << JohnDoe,
     Minimal(S("admin001"), S("adminpass"), S("System Administrator"), S("admin")),
     Minimal(S("lib001"), S("libpass"), S("College Librarian"), S("librarian")),
     [ Minimal(S("teacher101"), S("teachpass"), S("Professor Smith"), S("teacher"))
         EXCEPT !.classAssigned = "B.Tech 6th Sem" ] >>

SeedLibraryData ==
  [ issuedBooks |->
      << [title |-> "DBMS", issueDate |-> "2025-11-10", returnDate |-> "2025-12-10"],
         [title |-> "Operating Systems", issueDate |-> "2025-11-15",
          returnDate |-> "2025-12-15"] >>,
    resources |->
      << [type |-> "Notes", subject |-> "Computer Networks", topic |-> "OSI Model",
          downloadUrl |-> "/assets/ebooks/cn-osi.pdf"],
         [type |-> "PYQ", subject |-> "Algorithms", topic |-> "Greedy",
          downloadUrl |-> "/assets/ebooks/algo-greedy.pdf"] >> ]


(***************************************************************************)
(* Request inputs.                                                         *)
(***************************************************************************)
LoginBodies ==
  { [roll |-> S("22111234"), password |-> S("pass123")],
    [roll |-> <<" ", "22111234", " ">>, password |-> <<"pass123", " ">>],
    [roll |-> S("22111234"), password |-> S("wrong")],
    [roll |-> S("nosuch"), password |-> S("pass123")],
    [roll |-> S("admin001"), password |-> S("adminpass")],
    [roll |-> S("lib001"), password |-> S("libpass")],
    [roll |-> S("teacher101"), password |-> S("teachpass")],
    [roll |-> S("s1"), password |-> S("pw")],
    [roll |-> <<"<", "s2", ">">>, password |-> <<" ", "pw">>] }

SearchRolls == { S("22111234"), <<"s1", " ">>, <<>> }

\* the rolls a signup can carry bound the collection: the handler's own
\* existence check lets each of them in once
SignupBody(roll, role) ==
  [ name |-> <<" ", "Ann">>, roll |-> roll, password |-> S("pw"), role |-> role,
    universityRoll |-> <<"77", " ">> ]

SignupBodies ==
  { SignupBody(<<" ", "22111234", " ">>, S("student")),
    SignupBody(S("s1"), S("student")),
    SignupBody(<<"s1", " ">>, <<>>),
    SignupBody(<<"<", "s2", ">">>, <<" ", "teacher">>),
    SignupBody(<<"&lt;", "s2", "&gt;">>, S("guest")) }

RoleParams == { "student", "TEACHER", "admin" }

NoBody ==
  [ name |-> <<>>, roll |-> <<>>, password |-> <<>>, role |-> <<>>,
    universityRoll |-> <<>> ]

CredentialsBody(roll, password) == [NoBody EXCEPT !.roll = roll, !.password = password]
RollBody(roll) == [NoBody EXCEPT !.roll = roll]

(***************************************************************************)
(* Responses.  `next` tells whether the route's own handler ran (for a     *)
(* guarded route: whether checkRole called next()).                        *)
(***************************************************************************)
NoLocals == [page |-> "none"]

Redirect(s, route, body, location) ==
  [ sid |-> s, route |-> route, body |-> body, status |-> 302,
    location |-> location, view |-> "", error |-> "null",
    locals |-> NoLocals, next |-> TRUE ]

Render(s, route, body, status, view, error, locals) ==
  [ sid |-> s, route |-> route, body |-> body, status |-> status,
    location |-> "", view |-> view, error |-> error,
    locals |-> locals, next |-> TRUE ]

Send(s, route, body, status, text) ==
  [ sid |-> s, route |-> route, body |-> body, status |-> status,
    location |-> "", view |-> "", error |-> text,
    locals |-> NoLocals, next |-> TRUE ]

NoResponse ==
  [ sid |-> 0, route |-> "", body |-> NoBody, status |-> 0, location |-> "",
    view |-> "", error |-> "null", locals |-> NoLocals, next |-> FALSE ]

(***************************************************************************)
(* Array helpers.                                                          *)
(***************************************************************************)
Includes(arr, x) == \E i \in 1..Len(arr) : arr[i] = x

\* Array.prototype.find over indices: the first index in I, 0 when there is none
First(I) == IF I = {} THEN 0 ELSE CHOOSE i \in I : \A j \in I : i <= j

(***************************************************************************)
(* checkRole(requiredRoles)                                                *)
(***************************************************************************)
\* faulty variant: the guard lets every signed-in user through
CheckRoleAnyUser(requiredRoles, s) ==
  IF session[s] = 0 THEN "redirect" ELSE "next"

CheckRole(requiredRoles, s) ==
  IF session[s] = 0 THEN "redirect"
  ELSE IF Includes(requiredRoles, users[session[s]].role) THEN "next"
  ELSE "denied"

\* a guarded route: the guard's answer, or the route handler's response
Guarded(s, route, body, requiredRoles, response) ==
  LET g == CheckRole(requiredRoles, s) IN
  IF g = "redirect" THEN [Redirect(s, route, body, "/login") EXCEPT !.next = FALSE]
  ELSE IF g = "next" THEN response
  ELSE [Render(s, route, body, 403, "home", "Access Denied",
               [page |-> "home", required |-> requiredRoles])
          EXCEPT !.next = FALSE]


(***************************************************************************)
(* Lookups over the user collection.                                       *)
(***************************************************************************)
\* faulty variant: the lookup matches on the roll alone
FindCredentialsRollOnly(roll, password) ==
  First({i \in DOMAIN users : users[i].roll = roll})

\* users.find(u => u.roll === roll && u.password === password)
FindCredentials(roll, password) ==
  First({i \in DOMAIN users : users[i].roll = roll /\ users[i].password = password})

\* faulty variant: the existence check copies the login lookup and matches the password too
FindRollAndPassword(roll) ==
  First({i \in DOMAIN users : users[i].roll = roll /\ users[i].password = S("pw")})

\* faulty variant: the existence check copies the search lookup and sees students only
FindRollOfStudent(roll) ==
  First({i \in DOMAIN users : users[i].roll = roll /\ users[i].role = S("student")})

\* faulty variant: the existence check finds nothing
FindRollNever(roll) == 0

\* users.find(u => u.roll === roll)
FindRoll(roll) == First({i \in DOMAIN users : users[i].roll = roll})

\* users.find(u => u.roll === sanitizedRoll && u.role === 'student')
FindStudent(roll) ==
  First({i \in DOMAIN users : users[i].roll = roll /\ users[i].role = S("student")})

\* the switch on user.role after a login
RoleRedirect(role) ==
  IF role = S("admin") THEN "/admin/dashboard"
  ELSE IF role = S("librarian") THEN "/librarian/control"
  ELSE IF role = S("teacher") THEN "/teacher/class"
  ELSE "/student"

(***************************************************************************)
(* Public routes.                                                          *)
(***************************************************************************)
\* Handlers run one at a time on the event loop, each to completion: a handler
\* starts when no other is running, and `last` is the response of the turn
Idle == last.sid = 0

Reads == Idle /\ UNCHANGED <<users, libraryData, session, attachedBy, inflight>>

GetHome(s) ==
  /\ last' = Render(s, "GET /", NoBody, 200, "home", "null", [page |-> "home"])
  /\ Reads

GetLogin(s) ==
  /\ last' = Render(s, "GET /login", NoBody, 200, "login", "null", [page |-> "login"])
  /\ Reads

PostLogin(s, body) ==
  LET roll == Sanitize(body.roll)
      password == Sanitize(body.password)
      user == FindCredentials(roll, password)
      req == CredentialsBody(body.roll, body.password)
  IN  /\ Idle
      /\ IF user # 0
         THEN /\ session' = [session EXCEPT ![s] = user]
              /\ attachedBy' = [attachedBy EXCEPT ![s] = "login"]
              /\ last' = Redirect(s, "POST /login", req, RoleRedirect(users[user].role))
         ELSE /\ UNCHANGED <<session, attachedBy>>
              /\ last' = Render(s, "POST /login", req, 200, "login",
                                "Invalid roll or password", [page |-> "login"])
      /\ UNCHANGED <<users, libraryData, inflight>>

\* faulty variant: the handler redirects without destroying the session
PostLogoutKeepsSession(s) ==
  /\ Idle
  /\ last' = Redirect(s, "POST /logout", NoBody, "/")
  /\ UNCHANGED <<users, libraryData, session, attachedBy, inflight>>

\* req.session.destroy(): the session and the identity in it are gone
PostLogout(s) ==
  /\ Idle
  /\ session' = [session EXCEPT ![s] = 0]
  /\ attachedBy' = [attachedBy EXCEPT ![s] = "none"]
  /\ last' = Redirect(s, "POST /logout", NoBody, "/")
  /\ UNCHANGED <<users, libraryData, inflight>>

GetSignup(s) ==
  /\ last' = Render(s, "GET /signup", NoBody, 200, "signup-select", "null",
                    [page |-> "signup"])
  /\ Reads

\* String.prototype.toLowerCase on the role parameters drawn
ToLowerCase(p) == IF p = "TEACHER" THEN "teacher" ELSE p

ValidRoles == <<"student", "teacher", "librarian">>

GetSignupRole(s, param) ==
  LET role == ToLowerCase(param) IN
  /\ last' = IF ~Includes(ValidRoles, role)
             THEN Send(s, "GET /signup/:role", NoBody, 404, "Invalid role selected.")
             ELSE Render(s, "GET /signup/:role", NoBody, 200, "signup-form", "null",
                         [page |-> "signup", selectedRole |-> role])
  /\ Reads


(***************************************************************************)
(* POST /signup                                                            *)
(***************************************************************************)
\* faulty variant: a new student starts in the class the teacher view shows
NewUserInClass(name, roll, password, role, rawUniversityRoll) ==
  LET common == Minimal(roll, password, name, role) IN
  IF role = S("student")
  THEN [common EXCEPT !.universityRoll = Sanitize(rawUniversityRoll),
                      !.semester = 6, !.college = "N/A",
                      !.performance = <<>>, !.reportCards = <<>>]
  ELSE IF role = S("teacher")
  THEN [common EXCEPT !.classAssigned = "B.Tech 6th Sem (Default)"]
  ELSE common

\* the record the handler builds: role-conditional fields over the common ones
NewUser(name, roll, password, role, rawUniversityRoll) ==
  LET common == Minimal(roll, password, name, role) IN
  IF role = S("student")
  THEN [common EXCEPT !.universityRoll = Sanitize(rawUniversityRoll),
                      !.semester = 1, !.college = "N/A",
                      !.performance = <<>>, !.reportCards = <<>>]
  ELSE IF role = S("teacher")
  THEN [common EXCEPT !.classAssigned = "B.Tech 6th Sem (Default)"]
  ELSE common

\* the switch on the submitted role after a signup
SignupRedirect(role) ==
  IF role = S("admin") THEN "/admin/dashboard"
  ELSE IF role = S("librarian") THEN "/librarian/control"
  ELSE IF role = S("teacher") THEN "/teacher/class"
  ELSE "/student"

\* the handler, run to completion: existence check, append, attach, redirect
SignupHandler(s, body) ==
  LET name == Sanitize(body.name)
      roll == Sanitize(body.roll)
      password == Sanitize(body.password)
      role == SanitizeRole(body.role)
      existingUser == FindRoll(roll)
  IN  /\ Idle
      /\ IF existingUser # 0
         THEN /\ UNCHANGED <<users, session, attachedBy>>
              /\ last' = Render(s, "POST /signup", body, 200, "signup-form",
                                "Roll number already registered.",
                                [page |-> "signup", selectedRole |-> role])
         ELSE /\ users' = Append(users, NewUser(name, roll, password, role,
                                                body.universityRoll))
              /\ session' = [session EXCEPT ![s] = Len(users) + 1]
              /\ attachedBy' = [attachedBy EXCEPT ![s] = "signup"]
              /\ last' = Redirect(s, "POST /signup", body, SignupRedirect(role))
      /\ UNCHANGED libraryData

PostSignup(s, body) ==
  /\ SignupHandler(s, body)
  /\ UNCHANGED inflight

(***************************************************************************)
(* Guarded routes.                                                         *)
(***************************************************************************)
GetStudent(s) ==
  /\ last' = Guarded(s, "GET /student", NoBody, <<S("student")>>,
                     Render(s, "GET /student", NoBody, 200, "student", "null",
                            [page |-> "student", student |-> session[s]]))
  /\ Reads

GetLibrary(s) ==
  /\ last' = Guarded(s, "GET /library", NoBody,
                     <<S("student"), S("librarian"), S("admin")>>,
                     Render(s, "GET /library", NoBody, 200, "library", "null",
                            [page |-> "library", libraryData |-> libraryData]))
  /\ Reads

GetGuidance(s) ==
  /\ last' = Guarded(s, "GET /guidance", NoBody,
                     <<S("student"), S("teacher"), S("admin")>>,
                     Render(s, "GET /guidance", NoBody, 200, "guidance", "null",
                            [page |-> "guidance"]))
  /\ Reads

GetAdminDashboard(s) ==
  /\ last' = Guarded(s, "GET /admin/dashboard", NoBody, <<S("admin")>>,
                     Render(s, "GET /admin/dashboard", NoBody, 200,
                            "admin/dashboard", "null",
                            [page |-> "admin", foundStudent |-> 0,
                             searchQuery |-> "null"]))
  /\ Reads

PostAdminSearch(s, rawRoll) ==
  LET sanitizedRoll == Sanitize(rawRoll)
      student == FindStudent(sanitizedRoll)
  IN  /\ last' = Guarded(s, "POST /admin/search", RollBody(rawRoll), <<S("admin")>>,
                         Render(s, "POST /admin/search", RollBody(rawRoll), 200,
                                "admin/dashboard", "null",
                                [page |-> "admin", foundStudent |-> student,
                                 searchQuery |-> rawRoll]))
      /\ Reads

GetLibrarianControl(s) ==
  /\ last' = Guarded(s, "GET /librarian/control", NoBody, <<S("librarian")>>,
                     Render(s, "GET /librarian/control", NoBody, 200,
                            "librarian/control", "null",
                            [page |-> "librarian", libraryData |-> libraryData,
                             studentIssueRecords |-> "null", searchRoll |-> "null"]))
  /\ Reads

\* faulty variant: the found student's issued books are taken out of the library data
PostLibrarianSearchStudentTakesBooks(s, rawRoll) ==
  /\ Idle
  /\ last' = Guarded(s, "POST /librarian/search-student", RollBody(rawRoll),
                     <<S("librarian")>>,
                     Render(s, "POST /librarian/search-student", RollBody(rawRoll),
                            200, "librarian/control", "null",
                            [page |-> "librarian", libraryData |-> libraryData,
                             studentIssueRecords |-> "null", searchRoll |-> rawRoll]))
  /\ libraryData' = IF CheckRole(<<S("librarian")>>, s) = "next"
                    THEN [libraryData EXCEPT !.issuedBooks = <<>>]
                    ELSE libraryData
  /\ UNCHANGED <<users, session, attachedBy, inflight>>

\* the issued books are resolved for the one hardcoded roll only
IssueRecords(student) ==
  IF student # 0
  THEN [ studentName |-> users[student].name, studentRoll |-> users[student].roll,
         books |-> IF users[student].roll = S("22111234")
                   THEN libraryData.issuedBooks ELSE <<>> ]
  ELSE "null"

PostLibrarianSearchStudent(s, rawRoll) ==
  LET sanitizedRoll == Sanitize(rawRoll)
      student == FindStudent(sanitizedRoll)
  IN  /\ last' = Guarded(s, "POST /librarian/search-student", RollBody(rawRoll),
                         <<S("librarian")>>,
                         Render(s, "POST /librarian/search-student", RollBody(rawRoll),
                                200, "librarian/control", "null",
                                [page |-> "librarian", libraryData |-> libraryData,
                                 studentIssueRecords |-> IssueRecords(student),
                                 searchRoll |-> rawRoll]))
      /\ Reads

AssignedSemester == 6

\* faulty variant: the filter forgets the semester
IsAnyStudent(user) == user.role = S("student")

IsClassStudent(user) == user.role = S("student") /\ user.semester = AssignedSemester

\* users.filter(user => user.role === 'student' && user.semester === assignedSemester)
ClassStudents == SelectSeq(users, IsClassStudent)

GetTeacherClass(s) ==
  /\ last' = Guarded(s, "GET /teacher/class", NoBody, <<S("teacher")>>,
                     Render(s, "GET /teacher/class", NoBody, 200, "teacher/class",
                            "null",
                            [page |-> "teacher", teacher |-> session[s],
                             classStudents |-> ClassStudents,
                             assignedClass |-> users[session[s]].classAssigned]))
  /\ Reads

(***************************************************************************)
(* Chat proxy and the catch-all.                                           *)
(***************************************************************************)
\* the handler suspends only at the upstream call, which either returns a
\* completion or throws; it reads and writes no shared state on either side of
\* the await, so its two halves are drawn as one step
PostChat(s, upstreamOk) ==
  /\ last' = IF upstreamOk
             THEN Send(s, "POST /chat", NoBody, 200, "reply")
             ELSE Send(s, "POST /chat", NoBody, 500, "Sorry - something went wrong.")
  /\ Reads

NotFound(s) ==
  /\ last' = Render(s, "*", NoBody, 404, "home", "404", [page |-> "error"])
  /\ Reads


(***************************************************************************)
(* Requests in flight.  The body parsers and the session middleware run    *)
(* before the route handler, so several POST /signup requests can have     *)
(* been accepted while none of their handlers has run.  The event loop     *)
(* then runs one handler at a time, each to completion: the handler has no *)
(* await in it.  `inflight` lists the accepted requests in arrival order;  *)
(* `fresh`, `waiting` and `outcome` record, for each, whether its roll was *)
(* absent from the collection when it arrived, which requests were still   *)
(* waiting for their handler then, and what its handler answered.          *)
(***************************************************************************)
ConcurrentBodies ==
  { SignupBody(S("s1"), S("student")),
    SignupBody(<<"s1", " ">>, <<>>),
    SignupBody(<<" ", "22111234", " ">>, S("student")) }

ReceiveSignup(s, body) ==
  /\ Idle
  /\ Len(inflight) < MaxInFlight
  /\ inflight' = Append(inflight,
       [ st |-> "pending", sid |-> s, body |-> body,
         fresh |-> FindRoll(Sanitize(body.roll)) = 0,
         waiting |-> {j \in DOMAIN inflight : inflight[j].st = "pending"},
         outcome |-> "" ])
  /\ UNCHANGED <<users, libraryData, session, attachedBy, last>>

DispatchSignup(i) ==
  /\ inflight[i].st = "pending"
  /\ SignupHandler(inflight[i].sid, inflight[i].body)
  /\ inflight' = [inflight EXCEPT ![i].st = "answered",
                                  ![i].outcome = IF Len(users') > Len(users)
                                                 THEN "created" ELSE "rejected"]

\* the handler has returned: the event loop takes the next callback
EndTurn ==
  /\ ~Idle
  /\ last' = NoResponse
  /\ UNCHANGED <<users, libraryData, session, attachedBy, inflight>>

(***************************************************************************)
(* Specifications.                                                         *)
(***************************************************************************)
Init ==
  /\ users = SeedUsers
  /\ libraryData = SeedLibraryData
  /\ session = [s \in Sessions |-> 0]
  /\ attachedBy = [s \in Sessions |-> "none"]
  /\ last = NoResponse
  /\ inflight = <<>>

Next ==
  \/ \E s \in Sessions : GetHome(s)
  \/ \E s \in Sessions : GetLogin(s)
  \/ \E s \in Sessions, body \in LoginBodies : PostLogin(s, body)
  \/ \E s \in Sessions : PostLogout(s)
  \/ \E s \in Sessions : GetSignup(s)
  \/ \E s \in Sessions, param \in RoleParams : GetSignupRole(s, param)
  \/ \E s \in Sessions, body \in SignupBodies : PostSignup(s, body)
  \/ \E s \in Sessions : GetStudent(s)
  \/ \E s \in Sessions : GetLibrary(s)
  \/ \E s \in Sessions : GetGuidance(s)
  \/ \E s \in Sessions : GetAdminDashboard(s)
  \/ \E s \in Sessions, roll \in SearchRolls : PostAdminSearch(s, roll)
  \/ \E s \in Sessions : GetLibrarianControl(s)
  \/ \E s \in Sessions, roll \in SearchRolls : PostLibrarianSearchStudent(s, roll)
  \/ \E s \in Sessions : GetTeacherClass(s)
  \/ \E s \in Sessions, ok \in BOOLEAN : PostChat(s, ok)
  \/ \E s \in Sessions : NotFound(s)
  \/ EndTurn

Spec == Init /\ [][Next]_vars

\* concurrent signups: requests are accepted in any order, handlers run one at a time
NextConcurrent ==
  \/ \E s \in Sessions, body \in ConcurrentBodies : ReceiveSignup(s, body)
  \/ \E i \in DOMAIN inflight : DispatchSignup(i)
  \/ EndTurn

SpecConcurrent == Init /\ [][NextConcurrent]_vars


(***************************************************************************)
(* Properties.                                                             *)
(***************************************************************************)
Student == S("student")
Admin == S("admin")
Librarian == S("librarian")
Teacher == S("teacher")

\* the required-role set each protected route declares
RouteRoles ==
  [ route \in { "GET /student", "GET /library", "GET /guidance",
                "GET /admin/dashboard", "POST /admin/search",
                "GET /librarian/control", "POST /librarian/search-student",
                "GET /teacher/class" } |->
      CASE route = "GET /student" -> {Student}
        [] route = "GET /library" -> {Student, Librarian, Admin}
        [] route = "GET /guidance" -> {Student, Teacher, Admin}
        [] route \in {"GET /admin/dashboard", "POST /admin/search"} -> {Admin}
        [] route \in {"GET /librarian/control", "POST /librarian/search-student"}
             -> {Librarian}
        [] route = "GET /teacher/class" -> {Teacher} ]

ProtectedRoutes == DOMAIN RouteRoles

\* this step is the turn of a route handler answering session s on `route`
Answers(s, route) == last.sid = 0 /\ last'.sid = s /\ last'.route = route

Rolls == {users[i].roll : i \in DOMAIN users}

\* C1: on every protected route the route's handler runs iff the session has a
\* user whose role is in the route's required set; a session without a user is
\* redirected to /login, a user with another role gets status 403, and in
\* neither case does the protected handler run.
C1_GuardDecides ==
  last.route \in ProtectedRoutes =>
    LET u == session[last.sid]
        allowed == u # 0 /\ users[u].role \in RouteRoles[last.route]
    IN  /\ last.next <=> allowed
        /\ allowed => last.status = 200
        /\ u = 0 => last.status = 302 /\ last.location = "/login" /\ ~last.next
        /\ (u # 0 /\ ~allowed) => last.status = 403 /\ ~last.next

\* a signed-in user of the wrong role was refused on a protected route
C1_Witness ==
  /\ last.route = "GET /library"
  /\ last.status = 403
  /\ session[last.sid] # 0
  /\ users[session[last.sid]].role = Teacher

\* where a successful login redirects, by the role of the record found
LoginTarget(role) ==
  CASE role = Admin -> "/admin/dashboard"
    [] role = Librarian -> "/librarian/control"
    [] role = Teacher -> "/teacher/class"
    [] OTHER -> "/student"

\* C2 (amended): POST /login attaches an identity iff some record has roll and
\* password equal to the submitted values after trimming and sanitizing; then
\* the session's user is that record and the redirect follows its role;
\* otherwise the login view is re-rendered with the one generic error, the
\* session keeps what it had, and the collection is unchanged either way.
C2_LoginMatchesSanitized ==
  [][ \A s \in Sessions : Answers(s, "POST /login") =>
        LET roll == Sanitize(last'.body.roll)
            password == Sanitize(last'.body.password)
            M == {i \in DOMAIN users :
                    users[i].roll = roll /\ users[i].password = password}
        IN  /\ users' = users
            /\ \A t \in Sessions \ {s} : session'[t] = session[t]
            /\ IF M # {}
               THEN /\ session'[s] \in M
                    /\ last'.status = 302
                    /\ last'.location = LoginTarget(users[session'[s]].role)
               ELSE /\ session'[s] = session[s]
                    /\ last'.view = "login"
                    /\ last'.error = "Invalid roll or password" ]_vars

\* a login whose submitted roll carries surrounding whitespace succeeded
C2_Witness ==
  /\ last.route = "POST /login"
  /\ last.status = 302
  /\ last.body.roll # Sanitize(last.body.roll)
  /\ session[last.sid] # 0
  /\ users[session[last.sid]].roll = Sanitize(last.body.roll)

\* C2 as stated: an identity is attached iff some record has roll and password
\* equal to the submitted values themselves.
C2_LoginMatchesSubmitted ==
  last.route = "POST /login" =>
    ( last.status = 302 <=>
        \E i \in DOMAIN users : /\ users[i].roll = last.body.roll
                                /\ users[i].password = last.body.password )


\* the records before this step are still there, in place and unmodified
KeepsRecords == Len(users') >= Len(users) /\ SubSeq(users', 1, Len(users)) = users

C4_FreshStudentSignup ==
  [][ \A s \in Sessions :
        /\ ( /\ Answers(s, "POST /signup")
             /\ Sanitize(last'.body.roll) \notin Rolls
             /\ SanitizeRole(last'.body.role) = Student )
           => /\ Len(users') = Len(users) + 1
              /\ KeepsRecords
              /\ users'[Len(users')].roll = Sanitize(last'.body.roll)
              /\ users'[Len(users')].role = Student
              /\ users'[Len(users')].semester = 1
              /\ users'[Len(users')].performance = <<>>
              /\ users'[Len(users')].reportCards = <<>>
              /\ session'[s] = Len(users')
              /\ \A t \in Sessions \ {s} : session'[t] = session[t]
              /\ last'.status = 302
              /\ last'.location = "/student"
        /\ ( /\ Answers(s, "GET /student")
             /\ attachedBy[s] = "signup"
             /\ users[session[s]].role = Student )
           => /\ last'.next
              /\ last'.status = 200
              /\ last'.view = "student"
              /\ last'.locals.student = session[s] ]_vars

\* the session that signed up as a student was then served GET /student
C4_Witness ==
  /\ last.route = "GET /student"
  /\ last.next
  /\ attachedBy[last.sid] = "signup"
  /\ session[last.sid] > Len(SeedUsers)
  /\ users[session[last.sid]].semester = 1

\* C4 as stated: a signup whose submitted roll equals no record's roll, with
\* role "student", appends exactly one record.
C4_SubmittedRollAbsent ==
  [][ \A s \in Sessions :
        ( /\ Answers(s, "POST /signup")
          /\ last'.body.roll \notin Rolls
          /\ last'.body.role = Student )
        => Len(users') = Len(users) + 1 ]_vars

\* C5: no two records of the user collection have the same roll.
C5_RollUnique ==
  \A i, j \in DOMAIN users : users[i].roll = users[j].roll => i = j

\* two signups went in, and a third carrying the roll of one of them was refused
C5_Witness ==
  /\ Len(users) = Len(SeedUsers) + 2
  /\ last.route = "POST /signup"
  /\ last.error = "Roll number already registered."
  /\ \E i \in DOMAIN users : i > Len(SeedUsers) /\ users[i].roll = Sanitize(last.body.roll)

\* C6: every record of the collection, and so every session identity, has a
\* role that is one of student, admin, librarian, teacher.
C6_RoleInSet ==
  /\ \A i \in DOMAIN users : users[i].role \in {Student, Admin, Librarian, Teacher}
  /\ \A s \in Sessions :
       session[s] # 0 => users[session[s]].role \in {Student, Admin, Librarian, Teacher}


\* C7: POST /logout clears the session's identity and redirects to /, leaving
\* the other sessions and the collection alone; a session without identity
\* gets one only by its own successful login or signup, and until then each
\* of its requests to a protected route is redirected to /login.
C7_LogoutClears ==
  [][ \A s \in Sessions :
        /\ Answers(s, "POST /logout")
           => /\ session'[s] = 0
              /\ last'.status = 302
              /\ last'.location = "/"
              /\ \A t \in Sessions \ {s} : session'[t] = session[t]
              /\ users' = users
        /\ (session[s] = 0 /\ session'[s] # 0)
           => /\ last'.sid = s
              /\ last'.route \in {"POST /login", "POST /signup"}
              /\ last'.status = 302
        /\ (session[s] = 0 /\ \E route \in ProtectedRoutes : Answers(s, route))
           => /\ last'.status = 302
              /\ last'.location = "/login"
              /\ ~last'.next
              /\ session'[s] = 0 ]_vars

\* a session logged out while another session stayed signed in to a record
\* that a signup created
C7_Witness ==
  /\ last.route = "POST /logout"
  /\ session[last.sid] = 0
  /\ \E t \in Sessions : session[t] > Len(SeedUsers)

\* C8: the collection changes only by a successful POST /signup, which appends
\* one record; no step removes or modifies a record; LibraryData is always
\* what it was at process start.
C8_OnlySignupAppends ==
  [][ /\ KeepsRecords
      /\ users' # users
         => /\ last'.route = "POST /signup"
            /\ last'.status = 302
            /\ Len(users') = Len(users) + 1
      /\ last'.route # "POST /signup" => users' = users
      /\ libraryData = SeedLibraryData
      /\ libraryData' = SeedLibraryData ]_vars

\* a librarian searched for a student after two signups had grown the collection
C8_Witness ==
  /\ last.route = "POST /librarian/search-student"
  /\ last.next
  /\ Len(users) = Len(SeedUsers) + 2
  /\ libraryData = SeedLibraryData

SameRoll(i, j) == Sanitize(inflight[i].body.roll) = Sanitize(inflight[j].body.roll)

\* two requests that were waiting together, each carrying the same roll, which
\* was absent from the collection when each arrived: both answered
RacedPairs ==
  { p \in (DOMAIN inflight) \X (DOMAIN inflight) :
      /\ p[1] \in inflight[p[2]].waiting
      /\ SameRoll(p[1], p[2])
      /\ inflight[p[1]].fresh /\ inflight[p[2]].fresh
      /\ inflight[p[1]].st = "answered" /\ inflight[p[2]].st = "answered" }

RecordsWithRoll(roll) == {i \in DOMAIN users : users[i].roll = roll}

\* C9 (amended): of two concurrent POST /signup requests carrying the same
\* fresh roll, whichever handler runs first appends the record and the other
\* is rejected, because the handler checks and appends without suspending; the
\* collection never holds two records with the same roll.  (With more than two
\* such requests in flight, one of them appends and every other is rejected.)
C9_ConcurrentSignupsSerialized ==
  /\ \A i, j \in DOMAIN users : users[i].roll = users[j].roll => i = j
  /\ \A p \in RacedPairs :
       /\ "rejected" \in {inflight[p[1]].outcome, inflight[p[2]].outcome}
       /\ \/ "created" \in {inflight[p[1]].outcome, inflight[p[2]].outcome}
          \/ \E k \in DOMAIN inflight \ {p[1], p[2]} :
               SameRoll(k, p[1]) /\ inflight[k].outcome = "created"
       /\ Cardinality(RecordsWithRoll(Sanitize(inflight[p[1]].body.roll))) = 1

\* two same-roll signups were in flight together and both have been answered
C9_Witness ==
  \E p \in RacedPairs : inflight[p[1]].body.roll # inflight[p[2]].body.roll

\* C9 as stated: two concurrent signups with the same fresh roll both pass the
\* existence check, and the collection then holds two records with that roll.
C9_BothPassTheCheck ==
  \A p \in RacedPairs :
    /\ inflight[p[1]].outcome = "created"
    /\ inflight[p[2]].outcome = "created"
    /\ Cardinality(RecordsWithRoll(Sanitize(inflight[p[1]].body.roll))) = 2

=============================================================================
